---- MODULE Spec2Model ----
(***************************************************************************)
(* kitcat: the index transaction engine (internal/storage/index.go) and    *)
(* the staging walkers AddFile / AddAll (internal/core).                   *)
(*                                                                         *)
(* Paths are sequences of segments: <<"d","b">> is d/b.  The index file is *)
(* a record describing its bytes: absent, empty, a malformed document, or  *)
(* a JSON object of raw per-key values together with its formatting.       *)
(***************************************************************************)
EXTENDS Integers, Sequences, FiniteSets, TLC

\* ------------------------------------------------------------------ bounds
MaxMTime == 1          \* modification times range over 0..MaxMTime

\* ------------------------------------------------------- program constants
Omitted == -1          \* an `omitempty` field that is not in the JSON text

\* -------------------------------------------------------------- processes
Procs == {1, 2}

\* ------------------------------------------------------------------ paths
RepoDir == ".kitcat"
indexPath == <<RepoDir, "index">>

AbsRepoRoot == <<"repo">>          \* filepath.Abs(".")
NoNode == <<"-">>

\* Regular files of the working tree whose state varies.
FileA == <<"repo", "a">>
FileB == <<"repo", "d", "b">>
TreeFiles == {FileA, FileB}
\* Fixed nodes: the directory d, the metadata directory and a file in it,
\* and a file outside the repository.
DirD == <<"repo", "d">>
MetaDir == <<"repo", RepoDir>>
MetaFile == <<"repo", RepoDir, "x">>
OutFile == <<"out">>

\* Lexical order of the names ReadDir returns ('.' sorts before letters).
NameOrder == <<RepoDir, "a", "b", "d", "out", "repo", "x">>

Contents == {"", "x", "y"}
NoFile == [present |-> FALSE, data |-> "", mtime |-> 0]
FileStates ==
  {NoFile} \cup
  {[present |-> TRUE, data |-> c, mtime |-> t] : c \in Contents, t \in 0..MaxMTime}

\* info.Size()
Size(c) == IF c = "" THEN 0 ELSE 1

\* The digest the content store computes for a content.
Digest(c) == CASE c = "" -> "e3b0" [] c = "x" -> "2d71" [] OTHER -> "a1fc"

Hashes == {"e3b0", "2d71", "a1fc"}

\* F applied to the value of x, with x evaluated once.
Bind(x, F(_)) == CHOOSE v \in {F(y) : y \in {x}} : TRUE

\* ---------------------------------------------------------- index entries
IndexEntry(h, m, s) == [h |-> h, m |-> m, s |-> s]
EmptyIndex == [k \in {} |-> IndexEntry("", 0, 0)]

\* map assignment and delete on an index
Put(index, k, e) == [x \in DOMAIN index \cup {k} |-> IF x = k THEN e ELSE index[x]]
Without(index, ks) == [x \in DOMAIN index \ ks |-> index[x]]

\* ------------------------------------------------------------- index file
Absent == [kind |-> "absent", vals |-> EmptyIndex, fmt |-> "-"]
EmptyFile == [kind |-> "empty", vals |-> EmptyIndex, fmt |-> "-"]
CorruptFile == [kind |-> "corrupt", vals |-> EmptyIndex, fmt |-> "-"]
JsonFile(vals, fmt) == [kind |-> "json", vals |-> vals, fmt |-> fmt]

\* Raw JSON values of the document.
RawString(h) == [shape |-> "str", h |-> h, m |-> Omitted, s |-> Omitted]
RawObject(h, m, s) == [shape |-> "obj", h |-> h, m |-> m, s |-> s]
RawOther == [shape |-> "other", h |-> "", m |-> Omitted, s |-> Omitted]
RawBadObject == [shape |-> "badobj", h |-> "", m |-> Omitted, s |-> Omitted]

\* json.Unmarshal of an object value into IndexEntry: an omitted field is 0.
DecodeEntry(raw) ==
  IndexEntry(raw.h,
             IF raw.m = Omitted THEN 0 ELSE raw.m,
             IF raw.s = Omitted THEN 0 ELSE raw.s)

LoadIndexWithMetaStrict(file) ==
  IF file.kind \in {"absent", "empty"} THEN [err |-> "none", index |-> EmptyIndex]
  ELSE IF file.kind = "corrupt" THEN [err |-> "corrupt", index |-> EmptyIndex]
  ELSE IF \E k \in DOMAIN file.vals : file.vals[k].shape \notin {"str", "obj"}
       THEN [err |-> "corrupt", index |-> EmptyIndex]
  ELSE [err |-> "none",
        index |-> [k \in DOMAIN file.vals |->
                     IF file.vals[k].shape = "str"
                     THEN IndexEntry(file.vals[k].h, 0, 0)
                     ELSE DecodeEntry(file.vals[k])]]

\* LoadIndexWithMeta on a file content: [err, index].
LoadIndexWithMeta(file) ==
  IF file.kind \in {"absent", "empty"} THEN [err |-> "none", index |-> EmptyIndex]
  ELSE IF file.kind = "corrupt" THEN [err |-> "corrupt", index |-> EmptyIndex]
  ELSE IF \E k \in DOMAIN file.vals : file.vals[k].shape = "badobj"
       THEN [err |-> "corrupt", index |-> EmptyIndex]
  ELSE LET keep == {k \in DOMAIN file.vals : file.vals[k].shape \in {"str", "obj"}}
       IN [err |-> "none",
           index |-> [k \in keep |->
                        IF file.vals[k].shape = "str"
                        THEN IndexEntry(file.vals[k].h, 0, 0)
                        ELSE DecodeEntry(file.vals[k])]]

\* LoadIndex: the legacy path -> hash view.
LoadIndex(file) ==
  LET r == LoadIndexWithMeta(file)
  IN [err |-> r.err, index |-> [k \in DOMAIN r.index |-> r.index[k].h]]

MarshalEntryLegacy(e) ==
  IF e.m = 0 /\ e.s = 0 THEN RawString(e.h)
  ELSE RawObject(e.h, IF e.m = 0 THEN Omitted ELSE e.m, IF e.s = 0 THEN Omitted ELSE e.s)

MarshalEntryNoMeta(e) == RawObject(e.h, Omitted, Omitted)

\* json.MarshalIndent of one IndexEntry: `omitempty` drops a zero m or s.
MarshalEntry(e) ==
  RawObject(e.h, IF e.m = 0 THEN Omitted ELSE e.m, IF e.s = 0 THEN Omitted ELSE e.s)

\* json.MarshalIndent(index, "", "  "): sorted keys, two-space indentation.
MarshalIndent(index) ==
  JsonFile([k \in DOMAIN index |-> MarshalEntry(index[k])], "indent")

\* ------------------------------------------------------- path arithmetic
RECURSIVE CleanFrom(_, _, _)
\* filepath.Clean: drop "." segments, let ".." cancel the segment before it.
\* `abs` says the path is rooted, where ".." at the root is dropped.
CleanFrom(done, rest, abs) ==
  IF rest = <<>> THEN done
  ELSE LET seg == Head(rest)
       IN IF seg = "." THEN CleanFrom(done, Tail(rest), abs)
          ELSE IF seg = ".."
               THEN IF done # <<>> /\ done[Len(done)] # ".."
                    THEN CleanFrom(SubSeq(done, 1, Len(done) - 1), Tail(rest), abs)
                    ELSE IF abs THEN CleanFrom(done, Tail(rest), abs)
                         ELSE CleanFrom(Append(done, ".."), Tail(rest), abs)
               ELSE CleanFrom(Append(done, seg), Tail(rest), abs)

\* filepath.Clean of a relative path; the empty result is ".".
Clean(path) ==
  LET c == CleanFrom(<<>>, path, FALSE) IN IF c = <<>> THEN <<".">> ELSE c

\* filepath.Abs of a path given relative to the working directory (the root).
Abs(path) == CleanFrom(<<>>, AbsRepoRoot \o path, TRUE)

RECURSIVE CommonPrefixLen(_, _)
CommonPrefixLen(a, b) ==
  IF a = <<>> \/ b = <<>> \/ Head(a) # Head(b) THEN 0
  ELSE 1 + CommonPrefixLen(Tail(a), Tail(b))

\* filepath.Rel(base, target) for two absolute clean paths: climb out of the
\* part of base that target does not share, then descend.  It cannot fail
\* when both are absolute, so err is always FALSE here.
Rel(base, target) ==
  LET c == CommonPrefixLen(base, target)
      ups == [i \in 1..(Len(base) - c) |-> ".."]
      r == ups \o SubSeq(target, c + 1, Len(target))
  IN [err |-> FALSE, path |-> IF r = <<>> THEN <<".">> ELSE r]

\* strings.HasPrefix(cleanPath, RepoDir + "/") || cleanPath == RepoDir
InRepoDir(cleanPath) == cleanPath[1] = RepoDir

\* ----------------------------------------------------------- working tree
\* A world w is [fs, repoDir]: the files' states and whether .kitcat exists.
IsDirNode(node) == node \in {<<>>, AbsRepoRoot, DirD, MetaDir}

Exists(node, w) ==
  CASE node \in TreeFiles -> w.fs[node].present
    [] node \in {MetaDir, MetaFile} -> w.repoDir
    [] node \in {<<>>, AbsRepoRoot, DirD, OutFile} -> TRUE
    [] OTHER -> FALSE

\* os.FileInfo of an existing node.
Info(node, w) ==
  IF node \in TreeFiles
  THEN [isDir |-> FALSE, size |-> Size(w.fs[node].data), mtime |-> w.fs[node].mtime]
  ELSE [isDir |-> IsDirNode(node), size |-> 1, mtime |-> 1]

FileData(node, w) == IF node \in TreeFiles THEN w.fs[node].data ELSE "x"

\* The names ReadDir returns for a directory, in lexical order.
ChildNodes(dir, w) ==
  LET names == SelectSeq(NameOrder, LAMBDA n : Exists(Append(dir, n), w))
  IN [i \in 1..Len(names) |-> Append(dir, names[i])]

\* -------------------------------------------------- external collaborators
\* IsSafePath: the policy rejects every path with a ".." segment and the
\* paths listed in `unsafe`.
IsSafePath(cleanPath, unsafe) ==
  /\ \A i \in 1..Len(cleanPath) : cleanPath[i] # ".."
  /\ cleanPath \notin unsafe

\* ShouldIgnore(path, patterns, trackedHashLookup)
ShouldIgnore(cleanPath, patterns, proxyIndex) == cleanPath \in patterns

\* storage.HashAndStoreFile: the digest of the content, or a failure.
HashAndStoreFile(node, w, hashFail) ==
  IF node \in hashFail THEN [err |-> TRUE, hash |-> ""]
  ELSE [err |-> FALSE, hash |-> Digest(FileData(node, w))]

\* ------------------------------------------------------------- the walks
\* The fast path's test: an entry exists for the path and its stored size
\* and modification time equal the file's.
MetadataMatchesSwapped(index, cleanPath, info) ==
  /\ cleanPath \in DOMAIN index
  /\ index[cleanPath].s = info.mtime
  /\ index[cleanPath].m = info.size

MetadataMatchesSizeOnly(index, cleanPath, info) ==
  /\ cleanPath \in DOMAIN index
  /\ index[cleanPath].s = info.size

MetadataMatches(index, cleanPath, info) ==
  /\ cleanPath \in DOMAIN index
  /\ index[cleanPath].s = info.size
  /\ index[cleanPath].m = info.mtime

StagedEntryNoMeta(hash, info) == IndexEntry(hash, 0, 0)

\* The entry the slow path stores for a hashed file.
StagedEntry(hash, info) == IndexEntry(hash, info.mtime, info.size)

\* The state threaded through a walk: the in-memory index, AddAll's `seen`
\* set, and a record of what happened: the paths that reached the metadata
\* check (accepted), the paths handed to the content store (hashed), those
\* for which it failed (failed), the nodes the callback was invoked on
\* (visited), and the error returned.
WalkState(index) ==
  [index |-> index, seen |-> {}, accepted |-> {}, hashed |-> <<>>,
   failed |-> {}, visited |-> <<>>, err |-> "none"]

\* The inputs of one callback run that the environment decides.
\*   patErr:   whether LoadIgnorePatterns fails
\*   hashFail: the nodes on which HashAndStoreFile fails
\*   walkErr:  the node for which the walk reports an error (or NoNode)
\*   ignore:   the paths the ignore patterns match
\*   unsafe:   the paths IsSafePath rejects
WalkInputs(patErr, hashFail, walkErr, ignore, unsafe) ==
  [patErr |-> patErr, hashFail |-> hashFail, walkErr |-> walkErr, ignore |-> ignore, unsafe |-> unsafe]

Proxy(index) == [k \in DOMAIN index |-> index[k].h]

Outcome(st, ctl) == [st |-> st, ctl |-> ctl]

\* The callback AddFile hands to filepath.Walk.
AddFileVisit(node, st0, proxyIndex, in, w) ==
  Bind(Rel(AbsRepoRoot, node), LAMBDA rel :
  Bind(Clean(rel.path), LAMBDA cleanPath :
  LET st == [st0 EXCEPT !.visited = Append(@, node)]
      info == Info(node, w)
  IN IF node = in.walkErr THEN Outcome([st EXCEPT !.err = "walk"], "err")
     ELSE IF rel.err THEN Outcome([st EXCEPT !.err = "outside"], "err")
     ELSE IF cleanPath = <<".">> THEN Outcome(st, "nil")
     ELSE IF InRepoDir(cleanPath)
          THEN Outcome(st, IF info.isDir THEN "SkipDir" ELSE "nil")
     ELSE IF info.isDir THEN Outcome(st, "nil")
     ELSE IF ~IsSafePath(cleanPath, in.unsafe) THEN Outcome(st, "nil")
     ELSE IF ShouldIgnore(cleanPath, in.ignore, proxyIndex) THEN Outcome(st, "nil")
     ELSE LET acc == [st EXCEPT !.accepted = @ \cup {cleanPath}]
          IN IF MetadataMatches(acc.index, cleanPath, info)
             THEN Outcome(acc, "nil")
             ELSE LET r == HashAndStoreFile(node, w, in.hashFail)
                      called == [acc EXCEPT !.hashed = Append(@, cleanPath),
                                            !.failed = IF r.err THEN @ \cup {cleanPath}
                                                       ELSE @]
                  IN IF r.err THEN Outcome([called EXCEPT !.err = "hash"], "err")
                     ELSE Outcome(
                            [called EXCEPT !.index =
                               Put(@, cleanPath, StagedEntry(r.hash, info))],
                            "nil")))

\* The callback AddAll hands to filepath.Walk.
AddAllVisit(node, st0, proxyIndex, in, w) ==
  Bind(Rel(AbsRepoRoot, node), LAMBDA rel :
  Bind(Clean(rel.path), LAMBDA cleanPath :
  LET st == [st0 EXCEPT !.visited = Append(@, node)]
      info == Info(node, w)
  IN IF node = in.walkErr THEN Outcome([st EXCEPT !.err = "walk"], "err")
     ELSE IF rel.err THEN Outcome(st, "nil")
     ELSE IF cleanPath = <<".">> THEN Outcome(st, "nil")
     ELSE IF ~IsSafePath(cleanPath, in.unsafe) THEN Outcome(st, "nil")
     ELSE IF InRepoDir(cleanPath)
          THEN Outcome(st, IF info.isDir THEN "SkipDir" ELSE "nil")
     ELSE IF info.isDir THEN Outcome(st, "nil")
     ELSE IF ShouldIgnore(cleanPath, in.ignore, proxyIndex) THEN Outcome(st, "nil")
     ELSE LET acc == [st EXCEPT !.seen = @ \cup {cleanPath},
                                !.accepted = @ \cup {cleanPath}]
          IN IF MetadataMatches(acc.index, cleanPath, info)
             THEN Outcome(acc, "nil")
             ELSE LET r == HashAndStoreFile(node, w, in.hashFail)
                      called == [acc EXCEPT !.hashed = Append(@, cleanPath),
                                            !.failed = IF r.err THEN @ \cup {cleanPath}
                                                       ELSE @]
                  IN IF r.err THEN Outcome(called, "nil")
                     ELSE Outcome(
                            [called EXCEPT !.index =
                               Put(@, cleanPath, StagedEntry(r.hash, info))],
                            "nil")))

Visit(mode, node, st, proxyIndex, in, w) ==
  IF mode = "AddFile" THEN AddFileVisit(node, st, proxyIndex, in, w)
  ELSE AddAllVisit(node, st, proxyIndex, in, w)

RECURSIVE WalkNode(_, _, _, _, _, _)
RECURSIVE WalkList(_, _, _, _, _, _)
\* filepath.walk: a file gets the callback; a directory gets the callback and,
\* unless it returned SkipDir or an error, its entries in lexical order.
WalkNode(mode, node, st, proxyIndex, in, w) ==
  Bind(Visit(mode, node, st, proxyIndex, in, w),
       LAMBDA r :
         IF ~IsDirNode(node) \/ r.ctl # "nil" THEN r
         ELSE WalkList(mode, ChildNodes(node, w), r.st, proxyIndex, in, w))

WalkList(mode, nodes, st, proxyIndex, in, w) ==
  IF nodes = <<>> THEN Outcome(st, "nil")
  ELSE Bind(WalkNode(mode, Head(nodes), st, proxyIndex, in, w),
            LAMBDA r :
              IF r.ctl = "err" THEN r
              ELSE IF r.ctl = "SkipDir" /\ ~IsDirNode(Head(nodes)) THEN r
              ELSE WalkList(mode, Tail(nodes), r.st, proxyIndex, in, w))

\* filepath.Walk(root, fn): an Lstat failure of the root is handed to the
\* callback; SkipDir from the root is not an error.
Walk(mode, root, index, in, w) ==
  LET st == WalkState(index)
      r == IF Exists(root, w) THEN WalkNode(mode, root, st, Proxy(index), in, w)
           ELSE Visit(mode, root, st, Proxy(index),
                      [in EXCEPT !.walkErr = root], w)
  IN r.st

\* ------------------------------------------------------------ callbacks
\* What a caller's callback does to the map it is given: it deletes the keys
\* of `del`, stores the entries of `put`, and then fails or not.
Script(put, del, fail) == [put |-> put, del |-> del, fail |-> fail]
NoScript == Script(EmptyIndex, {}, FALSE)

RunScript(index, script) ==
  [k \in (DOMAIN index \ script.del) \cup DOMAIN script.put |->
     IF k \in DOMAIN script.put THEN script.put[k] ELSE index[k]]

FnResult(index, err, st, proxy) ==
  [index |-> index, err |-> err, walk |-> st, proxy |-> proxy]
NoProxy == [k \in {} |-> ""]

AddFileFnSweeps(index, inputPath, in, w) ==
  IF in.patErr THEN FnResult(index, "patterns", WalkState(index), NoProxy)
  ELSE Bind(Walk("AddFile", Abs(inputPath), index, in, w),
         LAMBDA st :
           IF st.err # "none" THEN FnResult(st.index, st.err, st, NoProxy)
           ELSE FnResult(Without(st.index, DOMAIN st.index \ st.accepted),
                         "none", st, NoProxy))

\* The callback of AddFile (part_000 lines 51-128).
AddFileFn(index, inputPath, in, w) ==
  IF in.patErr THEN FnResult(index, "patterns", WalkState(index), NoProxy)
  ELSE Bind(Walk("AddFile", Abs(inputPath), index, in, w),
            LAMBDA st : FnResult(st.index, st.err, st, NoProxy))

AddAllFnNoSweep(index, in, w) ==
  IF in.patErr THEN FnResult(index, "patterns", WalkState(index), NoProxy)
  ELSE Bind(Walk("AddAll", AbsRepoRoot, index, in, w),
            LAMBDA st : FnResult(st.index, st.err, st, NoProxy))

\* The callback of AddAll (part_000 lines 144-239): the walk, then the sweep
\* of the index keys the walk did not see.
AddAllFn(index, in, w) ==
  IF in.patErr THEN FnResult(index, "patterns", WalkState(index), NoProxy)
  ELSE Bind(Walk("AddAll", AbsRepoRoot, index, in, w),
         LAMBDA st :
           LET toDelete == {pathInIndex \in DOMAIN st.index : pathInIndex \notin st.seen}
           IN IF st.err # "none" THEN FnResult(st.index, st.err, st, NoProxy)
              ELSE FnResult(Without(st.index, toDelete), "none", st, NoProxy))

UpdateIndexFnKeepsDeleted(realIndex, script) ==
  LET proxy == RunScript(Proxy(realIndex),
                         Script(Proxy(script.put), script.del, script.fail))
      reconciled ==
        [path \in DOMAIN realIndex \cup DOMAIN proxy |->
           IF path \notin DOMAIN proxy THEN realIndex[path]
           ELSE IF path \notin DOMAIN realIndex \/ realIndex[path].h # proxy[path]
           THEN IndexEntry(proxy[path], 0, 0)
           ELSE realIndex[path]]
  IN IF script.fail THEN FnResult(realIndex, "callback", WalkState(realIndex), proxy)
     ELSE FnResult(reconciled, "none", WalkState(reconciled), proxy)

\* The callback UpdateIndex wraps around a legacy callback: the proxy map,
\* the caller's changes to it, and the reconciliation into the rich index.
UpdateIndexFn(realIndex, script) ==
  LET proxy == RunScript(Proxy(realIndex),
                         Script(Proxy(script.put), script.del, script.fail))
      toDelete == {path \in DOMAIN realIndex : path \notin DOMAIN proxy}
      kept == Without(realIndex, toDelete)
      reconciled ==
        [path \in DOMAIN kept \cup DOMAIN proxy |->
           IF path \notin DOMAIN kept \/ kept[path].h # proxy[path]
           THEN IndexEntry(proxy[path], 0, 0)
           ELSE kept[path]]
  IN IF script.fail THEN FnResult(realIndex, "callback", WalkState(realIndex), proxy)
     ELSE FnResult(reconciled, "none", WalkState(reconciled), proxy)

\* A caller's own callback given to UpdateIndexWithMeta: it works on the
\* in-memory index itself, so its changes are made even when it then fails.
MetaFn(index, script) ==
  LET changed == RunScript(index, script)
  IN FnResult(changed, IF script.fail THEN "callback" ELSE "none",
              WalkState(changed), NoProxy)

\* The callback of a transaction, by the entry point that opened it.
RunFn(o, index, script, in, w) ==
  CASE o.kind = "AddFile" -> AddFileFn(index, o.path, in, w)
    [] o.kind = "AddAll" -> AddAllFn(index, in, w)
    [] o.kind = "UpdateIndex" -> UpdateIndexFn(index, script)
    [] OTHER -> MetaFn(index, script)

\* ------------------------------------------------------------------ state
VARIABLES
  disk,        \* the content of the index file .kitcat/index
  repoDir,     \* whether the directory .kitcat exists
  fs,          \* the state of each file of the working tree
  ignore,      \* the paths the ignore patterns match
  unsafe,      \* the paths IsSafePath rejects
  lockHeld,    \* the processes holding the lock on the index path
  pc,          \* where each process is in its call
  op,          \* the call each process is in: [kind, path, simple]
  pre,         \* the index as the transaction loaded it
  mem,         \* the in-memory index of the transaction
  err,         \* the error the call is returning ("none": nil)
  walk,        \* the record of the callback's walk
  proxy,       \* the path -> hash map a legacy callback left behind
  before,      \* the index file when the transaction took the lock
  wrote,       \* whether the call has replaced the index file
  smem,        \* the in-memory index the transaction has in the serial run
  serial,      \* the index file had the transactions run one after another
  lastCommit,  \* the index file the last committed transaction serialized
  lastAddAll   \* the outcome of an AddAll that nothing has followed

vars == <<disk, repoDir, fs, ignore, unsafe, lockHeld, pc, op, pre, mem, err,
          walk, proxy, before, wrote, smem, serial, lastCommit, lastAddAll>>

World == [fs |-> fs, repoDir |-> repoDir]

Op(kind, path, simple) == [kind |-> kind, path |-> path, simple |-> simple]
NoOp == Op("-", <<>>, EmptyIndex)
NoAddAll == [state |-> "none", disk |-> Absent]

IdleProc(p) ==
  /\ op' = [op EXCEPT ![p] = NoOp]
  /\ pre' = [pre EXCEPT ![p] = EmptyIndex]
  /\ mem' = [mem EXCEPT ![p] = EmptyIndex]
  /\ err' = [err EXCEPT ![p] = "none"]
  /\ walk' = [walk EXCEPT ![p] = WalkState(EmptyIndex)]
  /\ proxy' = [proxy EXCEPT ![p] = NoProxy]
  /\ before' = [before EXCEPT ![p] = Absent]
  /\ wrote' = [wrote EXCEPT ![p] = FALSE]
  /\ smem' = [smem EXCEPT ![p] = EmptyIndex]

InitWith(disks, dirs, trees, rules, policies) ==
  /\ disk \in disks
  /\ repoDir \in dirs
  /\ fs \in trees
  /\ ignore \in rules
  /\ unsafe \in policies
  /\ lockHeld = {}
  /\ pc = [p \in Procs |-> "idle"]
  /\ op = [p \in Procs |-> NoOp]
  /\ pre = [p \in Procs |-> EmptyIndex]
  /\ mem = [p \in Procs |-> EmptyIndex]
  /\ err = [p \in Procs |-> "none"]
  /\ walk = [p \in Procs |-> WalkState(EmptyIndex)]
  /\ proxy = [p \in Procs |-> NoProxy]
  /\ before = [p \in Procs |-> Absent]
  /\ wrote = [p \in Procs |-> FALSE]
  /\ smem = [p \in Procs |-> EmptyIndex]
  /\ serial = disk
  /\ lastCommit = disk
  /\ lastAddAll = NoAddAll

\* ------------------------------------------------------------ the calls
RichIndexKeepsPrior(simpleIndex) ==
  LET prior == LoadIndexWithMeta(disk).index
  IN [path \in DOMAIN prior \cup DOMAIN simpleIndex |->
        IF path \in DOMAIN simpleIndex THEN IndexEntry(simpleIndex[path].h, 0, 0)
        ELSE prior[path]]

\* WriteIndex lines 165-172: the rich index built from the simple one.
RichIndex(simpleIndex) ==
  [path \in DOMAIN simpleIndex |-> IndexEntry(simpleIndex[path].h, 0, 0)]

\* A call begins.  AddFile first checks that .kitcat and the input path
\* exist (part_000 lines 28-47) and returns at once when they do not;
\* WriteIndex builds the rich index (index.go lines 165-172); the others go
\* straight to UpdateIndexWithMeta.
Begin(p, o) ==
  /\ pc[p] = "idle"
  /\ op' = [op EXCEPT ![p] = o]
  /\ LET e == IF o.kind # "AddFile" THEN "none"
              ELSE IF ~repoDir THEN "notrepo"
              ELSE IF ~Exists(Abs(o.path), World) THEN "notfound"
              ELSE "none"
     IN /\ err' = [err EXCEPT ![p] = e]
        /\ pc' = [pc EXCEPT ![p] = IF e = "none" THEN "mkdir" ELSE "done"]
  /\ mem' = [mem EXCEPT ![p] = IF o.kind = "WriteIndex" THEN RichIndex(o.simple)
                                ELSE EmptyIndex]
  /\ smem' = [smem EXCEPT ![p] = mem'[p]]
  /\ lastAddAll' = IF o.kind = "AddAll" THEN lastAddAll ELSE NoAddAll
  /\ UNCHANGED <<disk, repoDir, fs, ignore, unsafe, lockHeld, pre, walk, proxy,
                 before, wrote, serial, lastCommit>>

\* os.MkdirAll(filepath.Dir(indexPath), 0o755) (index.go 94-96, 174-176).
TxnMkdir(p, fails) ==
  /\ pc[p] = "mkdir"
  /\ IF fails
     THEN /\ err' = [err EXCEPT ![p] = "mkdir"]
          /\ pc' = [pc EXCEPT ![p] = "done"]
          /\ UNCHANGED repoDir
     ELSE /\ repoDir' = TRUE
          /\ pc' = [pc EXCEPT ![p] = "lock"]
          /\ UNCHANGED err
  /\ UNCHANGED <<disk, fs, ignore, unsafe, lockHeld, op, pre, mem, walk, proxy,
                 before, wrote, smem, serial, lastCommit, lastAddAll>>

\* The lock primitive grants the lock on a path to one holder at a time.
LockFree == lockHeld = {}

\* A call at its lock(indexPath): it goes on when `granted`, or lock fails
\* and the call returns.
LockStep(p, fails, granted) ==
  /\ pc[p] = "lock"
  /\ IF fails
     THEN /\ err' = [err EXCEPT ![p] = "lock"]
          /\ pc' = [pc EXCEPT ![p] = "done"]
          /\ UNCHANGED <<lockHeld, before>>
     ELSE /\ granted
          /\ lockHeld' = lockHeld \cup {p}
          /\ before' = [before EXCEPT ![p] = disk]
          /\ pc' = [pc EXCEPT ![p] = IF op[p].kind = "WriteIndex" THEN "write"
                                      ELSE "load"]
          /\ UNCHANGED err
  /\ UNCHANGED <<disk, repoDir, fs, ignore, unsafe, op, pre, mem, walk, proxy,
                 wrote, smem, serial, lastCommit, lastAddAll>>

\* A call that goes on without waiting for the lock to be free.
TxnLockNoWait(p, fails) == LockStep(p, fails, TRUE)

\* l, err := lock(indexPath); defer unlock(l) (index.go 98-102, 178-182):
\* the call waits until the lock is free.
TxnLock(p, fails) == LockStep(p, fails, LockFree)

\* The load of a transaction; a failed load leaves the call at `onErr`.
LoadStep(p, onErr) ==
  /\ pc[p] = "load"
  /\ LET r == LoadIndexWithMeta(disk)
     IN IF r.err # "none"
        THEN /\ err' = [err EXCEPT ![p] = r.err]
             /\ pc' = [pc EXCEPT ![p] = onErr]
             /\ UNCHANGED <<pre, mem>>
        ELSE /\ pre' = [pre EXCEPT ![p] = r.index]
             /\ mem' = [mem EXCEPT ![p] = r.index]
             /\ pc' = [pc EXCEPT ![p] = "fn"]
             /\ UNCHANGED err
  /\ UNCHANGED <<disk, repoDir, fs, ignore, unsafe, lockHeld, op, walk, proxy,
                 before, wrote, smem, serial, lastCommit, lastAddAll>>

\* A load whose failure returns without running the deferred unlock.
TxnLoadLeaks(p) == LoadStep(p, "done")

\* index, err := LoadIndexWithMeta(); if err != nil { return err }
\* (index.go 104-107): the return runs the deferred unlock.
TxnLoad(p) == LoadStep(p, "unlock")

\* The callback of a transaction; a failed callback leaves the call at
\* `onErr`.  The serial run applies the same callback, with the same inputs,
\* to the index it loads from the serial file.
FnStep(p, script, patErr, hashFail, walkErr, onErr) ==
  /\ pc[p] = "fn"
  /\ \E in \in {WalkInputs(patErr, hashFail, walkErr, ignore, unsafe)} :
     \E r \in {RunFn(op[p], mem[p], script, in, World)} :
     \E sr \in {RunFn(op[p], LoadIndexWithMeta(serial).index, script, in, World)} :
        /\ mem' = [mem EXCEPT ![p] = r.index]
        /\ walk' = [walk EXCEPT ![p] = r.walk]
        /\ err' = [err EXCEPT ![p] = r.err]
        /\ pc' = [pc EXCEPT ![p] = IF r.err # "none" THEN onErr ELSE "write"]
        /\ proxy' = [proxy EXCEPT ![p] = r.proxy]
        /\ smem' = [smem EXCEPT ![p] = sr.index]
  /\ UNCHANGED <<disk, repoDir, fs, ignore, unsafe, lockHeld, op, pre, before,
                 wrote, serial, lastCommit, lastAddAll>>

\* A callback whose error is dropped: the call goes on to write.
TxnFnIgnoresErr(p, script, patErr, hashFail, walkErr) ==
  FnStep(p, script, patErr, hashFail, walkErr, "write")

\* if err := fn(index); err != nil { return err } (index.go 109-111).
TxnFn(p, script, patErr, hashFail, walkErr) ==
  FnStep(p, script, patErr, hashFail, walkErr, "unlock")

\* SafeWriteFile(path, data, perm): the file holds data, or on failure what
\* it held.
SafeWriteFile(old, data, fails) == IF fails THEN old ELSE data

\* os.WriteFile truncates the file before it writes: a failure leaves a
\* file without the data.
TruncatingWriteFile(old, data, fails) == IF fails THEN EmptyFile ELSE data

\* The serialization and the replacement of the index file by `written`.
WriteStep(p, fails, written) ==
  /\ pc[p] = "write"
  /\ LET data == MarshalIndent(mem[p])
     IN /\ disk' = written
        /\ lastCommit' = IF ~fails /\ err[p] = "none" THEN data ELSE lastCommit
        /\ serial' = IF fails THEN serial ELSE MarshalIndent(smem[p])
  /\ err' = [err EXCEPT ![p] = IF fails THEN "write" ELSE err[p]]
  /\ wrote' = [wrote EXCEPT ![p] = ~fails]
  /\ pc' = [pc EXCEPT ![p] = "unlock"]
  /\ lastAddAll' = IF fails \/ op[p].kind = "AddAll" THEN lastAddAll ELSE NoAddAll
  /\ UNCHANGED <<repoDir, fs, ignore, unsafe, lockHeld, op, pre, mem, walk, proxy,
                 before, smem>>

\* A write through os.WriteFile instead of SafeWriteFile.
TxnWriteInPlace(p, fails) ==
  WriteStep(p, fails, TruncatingWriteFile(disk, MarshalIndent(mem[p]), fails))

\* data := json.MarshalIndent(index); return SafeWriteFile(indexPath, data)
\* (index.go 113-118, 184-189).
TxnWrite(p, fails) ==
  WriteStep(p, fails, SafeWriteFile(disk, MarshalIndent(mem[p]), fails))

\* The deferred unlock(l) runs as the call returns.
TxnUnlock(p) ==
  /\ pc[p] = "unlock"
  /\ lockHeld' = lockHeld \ {p}
  /\ pc' = [pc EXCEPT ![p] = "done"]
  /\ lastAddAll' =
       IF op[p].kind # "AddAll" THEN lastAddAll
       ELSE IF ~wrote[p] THEN NoAddAll
       ELSE [state |-> IF walk[p].failed = {} THEN "clean" ELSE "hashfail",
             disk |-> disk]
  /\ UNCHANGED <<disk, repoDir, fs, ignore, unsafe, op, pre, mem, err, walk,
                 proxy, before, wrote, smem, serial, lastCommit>>

\* The caller has the result; the process is ready for its next call.
Return(p) ==
  /\ pc[p] = "done"
  /\ pc' = [pc EXCEPT ![p] = "idle"]
  /\ IdleProc(p)
  /\ UNCHANGED <<disk, repoDir, fs, ignore, unsafe, lockHeld, serial, lastCommit,
                 lastAddAll>>

\* ------------------------------------------------------- the environment
\* No call is past its lock: the walk reads the tree in one step, so a
\* change during a transaction is, for the index, a change before or after it.
Quiet == \A p \in Procs : pc[p] \in {"idle", "mkdir", "lock"}

\* A file of the working tree is written, touched or removed.
SetFile(f, state) ==
  /\ Quiet
  /\ fs[f] # state
  /\ fs' = [fs EXCEPT ![f] = state]
  /\ lastAddAll' = NoAddAll
  /\ UNCHANGED <<disk, repoDir, ignore, unsafe, lockHeld, pc, op, pre, mem, err,
                 walk, proxy, before, wrote, smem, serial, lastCommit>>

\* The ignore patterns are edited.
SetIgnore(rules) ==
  /\ Quiet
  /\ ignore # rules
  /\ ignore' = rules
  /\ lastAddAll' = NoAddAll
  /\ UNCHANGED <<disk, repoDir, fs, unsafe, lockHeld, pc, op, pre, mem, err,
                 walk, proxy, before, wrote, smem, serial, lastCommit>>

\* ------------------------------------------------------------ input sets
KeyA == <<"a">>
KeyB == <<"d", "b">>
\* Keys a caller may hand in: ./a, a path inside .kitcat, the directory d.
KeyDot == <<".", "a">>
KeyMeta == <<RepoDir, "x">>
KeyDir == <<"d">>

Maps(keys, values) == UNION {[ks -> values] : ks \in SUBSET keys}

\* The states of the tree: a takes every state, d/b is absent or one file.
FileBStates == {NoFile, [present |-> TRUE, data |-> "x", mtime |-> 1]}
Trees == {t \in [TreeFiles -> FileStates] : t[FileB] \in FileBStates}

IgnoreRules == {{}, {KeyA}}
DefaultUnsafe == {}
\* A policy that also rejects the metadata directory itself.
MetaUnsafe == {<<RepoDir>>}

\* Index files a repository may hold before the first call: none, an empty
\* one, a malformed one, legacy ones, rich ones (also hand-formatted, with
\* explicit zero fields), and ones with a value of another shape or an
\* object that does not decode.
InitDisks ==
  {Absent, EmptyFile, CorruptFile,
   JsonFile((KeyA :> RawString("2d71")), "compact"),
   JsonFile((KeyA :> RawString("e3b0")) @@ (KeyB :> RawString("a1fc")), "compact"),
   JsonFile((KeyA :> RawObject("2d71", 1, 1)) @@ (KeyB :> RawObject("2d71", 1, 1)),
            "indent"),
   JsonFile((KeyA :> RawObject("a1fc", 0, 0)), "compact"),
   JsonFile((KeyA :> RawOther) @@ (KeyB :> RawString("2d71")), "compact"),
   JsonFile((KeyA :> RawBadObject) @@ (KeyB :> RawObject("2d71", 1, 1)), "indent")}

\* Callbacks of legacy callers: per key, leave it, delete it or set a hash.
LegacyScripts ==
  {Script(put, del, fail) :
     put \in Maps({KeyA, KeyB}, {IndexEntry(h, 0, 0) : h \in {"2d71", "a1fc"}}),
     del \in SUBSET {KeyA, KeyB}, fail \in BOOLEAN}

\* Callbacks of callers of UpdateIndexWithMeta.
MetaScripts ==
  {Script(put, del, fail) :
     put \in Maps({KeyA}, {IndexEntry("a1fc", 1, 1), IndexEntry("2d71", 0, 1)}),
     del \in SUBSET {KeyB}, fail \in BOOLEAN}

SimpleMaps == Maps({KeyA, KeyB}, {IndexEntry(h, 0, 0) : h \in {"2d71", "a1fc"}})

InputPaths == {<<"a">>, <<"d">>, <<".">>}

Calls ==
  {Op("AddFile", path, EmptyIndex) : path \in InputPaths}
  \cup {Op("AddAll", <<>>, EmptyIndex)}
  \cup {Op("UpdateIndex", <<>>, EmptyIndex), Op("UpdateIndexWithMeta", <<>>, EmptyIndex)}
  \cup {Op("WriteIndex", <<>>, simple) : simple \in SimpleMaps}

FnInput(script, patErr, hashFail, walkErr) ==
  [script |-> script, patErr |-> patErr, hashFail |-> hashFail, walkErr |-> walkErr]

\* What the environment and the caller decide in a callback run.
FnInputs(kind) ==
  CASE kind \in {"AddFile", "AddAll"} ->
         {FnInput(NoScript, FALSE, hf, we) :
            hf \in SUBSET TreeFiles, we \in {NoNode, FileA, DirD}}
         \cup {FnInput(NoScript, TRUE, {}, NoNode)}
    [] kind = "UpdateIndex" -> {FnInput(sc, FALSE, {}, NoNode) : sc \in LegacyScripts}
    [] OTHER -> {FnInput(sc, FALSE, {}, NoNode) : sc \in MetaScripts}

\* ------------------------------------------------------- specifications
Step(p) ==
  \/ \E o \in Calls : Begin(p, o)
  \/ \E fails \in BOOLEAN : TxnMkdir(p, fails)
  \/ \E fails \in BOOLEAN : TxnLock(p, fails)
  \/ TxnLoad(p)
  \/ \E in \in FnInputs(op[p].kind) : TxnFn(p, in.script, in.patErr, in.hashFail, in.walkErr)
  \/ \E fails \in BOOLEAN : TxnWrite(p, fails)
  \/ TxnUnlock(p)
  \/ Return(p)

Env ==
  \/ \E f \in TreeFiles, state \in FileStates :
       (f = FileB => state \in FileBStates) /\ SetFile(f, state)
  \/ \E rules \in IgnoreRules : SetIgnore(rules)

\* One caller at a time, on every tree and index file.
InitSeq == InitWith(InitDisks, BOOLEAN, Trees, IgnoreRules, {DefaultUnsafe})
NextSeq == Step(1) \/ Env
SpecSeq == InitSeq /\ [][NextSeq]_vars

\* Concurrent callers, on fewer trees, index files and inputs.
ConcDisks ==
  {CorruptFile,
   JsonFile((KeyA :> RawString("2d71")), "compact"),
   JsonFile((KeyA :> RawObject("2d71", 1, 1)) @@ (KeyB :> RawObject("2d71", 1, 1)),
            "indent")}

ConcTrees ==
  {t \in Trees : /\ t[FileA] \in {NoFile, [present |-> TRUE, data |-> "x", mtime |-> 0]}
                 /\ t[FileB].present}

ConcCalls ==
  {Op("AddFile", <<"a">>, EmptyIndex), Op("AddAll", <<>>, EmptyIndex),
   Op("UpdateIndex", <<>>, EmptyIndex), Op("UpdateIndexWithMeta", <<>>, EmptyIndex),
   Op("WriteIndex", <<>>, (KeyB :> IndexEntry("a1fc", 0, 0)))}

ConcFnInputs(kind) ==
  CASE kind \in {"AddFile", "AddAll"} ->
         {FnInput(NoScript, FALSE, {}, we) : we \in {NoNode, DirD}}
    [] kind = "UpdateIndex" ->
         {FnInput(Script((KeyA :> IndexEntry("a1fc", 0, 0)), {}, fail), FALSE, {}, NoNode) :
            fail \in BOOLEAN}
         \cup {FnInput(Script(EmptyIndex, {KeyB}, FALSE), FALSE, {}, NoNode)}
    [] OTHER ->
         {FnInput(Script((KeyB :> IndexEntry("e3b0", 1, 0)), {}, fail), FALSE, {}, NoNode) :
            fail \in BOOLEAN}

ConcStep(p) ==
  \/ \E o \in ConcCalls : Begin(p, o)
  \/ \E fails \in BOOLEAN : TxnMkdir(p, fails)
  \/ \E fails \in BOOLEAN : TxnLock(p, fails)
  \/ TxnLoad(p)
  \/ \E in \in ConcFnInputs(op[p].kind) : TxnFn(p, in.script, in.patErr, in.hashFail, in.walkErr)
  \/ \E fails \in BOOLEAN : TxnWrite(p, fails)
  \/ TxnUnlock(p)
  \/ Return(p)

Init == InitWith(ConcDisks, {TRUE}, ConcTrees, {{}}, {DefaultUnsafe})
Next == \E p \in Procs : ConcStep(p)
Spec == Init /\ [][Next]_vars

\* Concurrent callers under a scheduler that lets a call holding the lock
\* run on: its load, callback, write and unlock are never starved.
Critical(p) ==
  \/ TxnLoad(p)
  \/ \E in \in ConcFnInputs(op[p].kind) : TxnFn(p, in.script, in.patErr, in.hashFail, in.walkErr)
  \/ \E fails \in BOOLEAN : TxnWrite(p, fails)
  \/ TxnUnlock(p)

\* The first caller stages and updates; the second one rewrites the index.
FairCalls(p) ==
  IF p = 1 THEN {o \in ConcCalls : o.kind # "WriteIndex"}
  ELSE {o \in ConcCalls : o.kind = "WriteIndex"}

FairStep(p) ==
  \/ \E o \in FairCalls(p) : Begin(p, o)
  \/ \E fails \in BOOLEAN : TxnMkdir(p, fails)
  \/ \E fails \in BOOLEAN : TxnLock(p, fails)
  \/ Critical(p)
  \/ Return(p)

FairInit ==
  InitWith({CorruptFile, JsonFile((KeyA :> RawString("2d71")), "compact")}, {TRUE},
           {t \in ConcTrees : t[FileA].present}, {{}}, {DefaultUnsafe})
FairNext == \E p \in Procs : FairStep(p)
FairSpec == FairInit /\ [][FairNext]_vars /\ \A p \in Procs : WF_vars(Critical(p))

\* One caller whose callers' maps hold keys of every kind: the staging
\* calls, and WriteIndex, UpdateIndex and UpdateIndexWithMeta with the keys
\* ./a, .kitcat/x and d next to a and d/b, and AddFile with the path ../out.
KeyCalls ==
  {Op("AddFile", <<"a">>, EmptyIndex), Op("AddFile", <<"..", "out">>, EmptyIndex),
   Op("AddAll", <<>>, EmptyIndex),
   Op("UpdateIndex", <<>>, EmptyIndex), Op("UpdateIndexWithMeta", <<>>, EmptyIndex)}
  \cup {Op("WriteIndex", <<>>, (k :> IndexEntry("2d71", 0, 0))) : k \in {KeyA, KeyDot}}

KeyFnInputs(kind) ==
  CASE kind \in {"AddFile", "AddAll"} -> {FnInput(NoScript, FALSE, {}, NoNode)}
    [] kind = "UpdateIndex" ->
         {FnInput(Script((k :> IndexEntry("a1fc", 0, 0)), {}, FALSE), FALSE, {}, NoNode) :
            k \in {KeyB, KeyMeta}}
    [] OTHER ->
         {FnInput(Script((k :> IndexEntry("2d71", 1, 1)), {}, FALSE), FALSE, {}, NoNode) :
            k \in {KeyA, KeyDir}}

KeyStep(p) ==
  \/ \E o \in KeyCalls : Begin(p, o)
  \/ \E fails \in BOOLEAN : TxnMkdir(p, fails)
  \/ \E fails \in BOOLEAN : TxnLock(p, fails)
  \/ TxnLoad(p)
  \/ \E in \in KeyFnInputs(op[p].kind) :
       TxnFn(p, in.script, in.patErr, in.hashFail, in.walkErr)
  \/ \E fails \in BOOLEAN : TxnWrite(p, fails)
  \/ TxnUnlock(p)
  \/ Return(p)

InitKeys ==
  InitWith({Absent, JsonFile((KeyA :> RawString("2d71")), "compact")}, {TRUE},
           ConcTrees, {{}}, {DefaultUnsafe, MetaUnsafe})
NextKeys == KeyStep(1)
SpecKeys == InitKeys /\ [][NextKeys]_vars

\* ================================================================ claims

\* ---------------------------------------------------------------- C1
AbortErrs == {"corrupt", "callback", "patterns", "walk", "hash"}

\* C1: when the load of a transaction fails or its callback returns an
\* error, the call writes nothing: the index file is what it was when the
\* transaction took the lock, whatever the callback did to the in-memory
\* index before it failed.
C1_NoWriteOnFailure ==
  \A p \in Procs :
    (pc[p] \in {"unlock", "done"} /\ err[p] \in AbortErrs)
      => (~wrote[p] /\ disk = before[p])

\* A callback that failed after it changed the in-memory index.
C1_Witness ==
  \E p \in Procs :
    /\ pc[p] = "done"
    /\ err[p] \in {"callback", "hash"}
    /\ mem[p] # pre[p]
    /\ before[p].kind = "json"
    /\ disk = before[p]

\* ---------------------------------------------------------------- C2
\* C2: at most one call is between lock and unlock, and the index file is
\* the one the transactions produce run one after another in the order in
\* which they took the lock: no committed update is lost.
C2_Serialized ==
  /\ Cardinality(lockHeld) <= 1
  /\ disk = serial

\* Two transactions committed one after the other, the second one on the
\* index the first one wrote, while it had been waiting for the lock.
C2_Witness ==
  \E p, q \in Procs :
    /\ p # q
    /\ pc[q] = "done" /\ wrote[q] /\ mem[q] # pre[q]
    /\ pc[p] = "unlock" /\ wrote[p] /\ mem[p] # pre[p]
    /\ pre[p] = mem[q]
    /\ before[p] = MarshalIndent(mem[q])

\* ---------------------------------------------------------------- C3
\* C3: at every instant the index file is the initial file or the
\* serialization of the index of a transaction whose callback and write both
\* succeeded; what a running or aborted transaction did to its in-memory
\* index, or a part of a write, is never in the file a reader loads.
C3_OnlyCommittedVisible == disk = lastCommit

\* A transaction with a changed in-memory index is about to write while the
\* file holds what another transaction committed.
C3_Witness ==
  \E p, q \in Procs :
    /\ p # q
    /\ pc[q] = "done" /\ wrote[q]
    /\ pc[p] \in {"write", "unlock"} /\ ~wrote[p] /\ mem[p] # pre[p]
    /\ disk # MarshalIndent(mem[p])
    /\ LoadIndexWithMeta(disk).index = mem[q]

\* ---------------------------------------------------------------- C4
Outside == {"idle", "mkdir", "lock", "done"}

\* C4: a call holds the lock only between its lock and its deferred unlock,
\* so none holds it before it took it, after a failed mkdir or lock, or once
\* it has returned; and a call that holds the lock eventually releases it,
\* whether its load, callback or write failed or all succeeded.
C4_LockReleased ==
  /\ [](\A p \in Procs : pc[p] \in Outside => p \notin lockHeld)
  /\ \A p \in Procs : (p \in lockHeld) ~> (p \notin lockHeld)

\* A call returned a load failure and the lock is free for the waiting one.
C4_Witness ==
  \E p, q \in Procs :
    /\ pc[p] = "done" /\ err[p] = "corrupt"
    /\ pc[q] = "lock"
    /\ lockHeld = {}

\* ------------------------------------------------------------ C5, C6
StagingKinds == {"AddFile", "AddAll"}
AfterFn == {"write", "unlock", "done"}

Range(seq) == {seq[i] : i \in 1..Len(seq)}
Count(seq, x) == Cardinality({i \in 1..Len(seq) : seq[i] = x})

\* The file a canonical key names, as the tree holds it.
FileOf(k) == AbsRepoRoot \o k
OnDisk == LoadIndexWithMeta(disk).index

\* The loaded index has an entry for k with the size and the modification
\* time the file has now.
Unchanged(p, k) ==
  /\ k \in DOMAIN pre[p]
  /\ pre[p][k].s = Size(fs[FileOf(k)].data)
  /\ pre[p][k].m = fs[FileOf(k)].mtime

\* C5: a file AddFile or AddAll accepted whose loaded entry has the file's
\* size and modification time is never handed to the content store, its
\* in-memory entry stays the loaded one, and so does the entry in the index
\* file the call writes.
C5_FastPath ==
  \A p \in Procs :
    (op[p].kind \in StagingKinds /\ pc[p] \in AfterFn) =>
      \A k \in walk[p].accepted :
        Unchanged(p, k) =>
          /\ k \notin Range(walk[p].hashed)
          /\ k \in DOMAIN mem[p] /\ mem[p][k] = pre[p][k]
          /\ wrote[p] => (k \in DOMAIN OnDisk /\ OnDisk[k] = pre[p][k])

\* A committed stage that hashed a changed file and left an unchanged one
\* with nonzero metadata alone.
C5_Witness ==
  \E p \in Procs, k \in {KeyA, KeyB} :
    /\ op[p].kind \in StagingKinds /\ pc[p] = "done" /\ wrote[p]
    /\ k \in walk[p].accepted /\ Unchanged(p, k) /\ pre[p][k].m # 0
    /\ walk[p].hashed # <<>>
    /\ OnDisk[k] = pre[p][k]

\* C6: a file AddFile or AddAll accepted that has no loaded entry, or one
\* whose size or modification time is not the file's, is handed to the
\* content store exactly once; when the store returns a digest and the call
\* writes, the entry in the index file is (digest of the content, the
\* file's modification time, the file's size).
C6_SlowPath ==
  \A p \in Procs :
    (op[p].kind \in StagingKinds /\ pc[p] \in AfterFn) =>
      \A k \in walk[p].accepted :
        ~Unchanged(p, k) =>
          /\ Count(walk[p].hashed, k) = 1
          /\ (wrote[p] /\ k \notin walk[p].failed) =>
               /\ k \in DOMAIN OnDisk
               /\ OnDisk[k] = IndexEntry(Digest(fs[FileOf(k)].data),
                                         fs[FileOf(k)].mtime,
                                         Size(fs[FileOf(k)].data))

\* A committed stage replaced an entry whose metadata was stale.
C6_Witness ==
  \E p \in Procs, k \in {KeyA, KeyB} :
    /\ op[p].kind \in StagingKinds /\ pc[p] = "done" /\ wrote[p]
    /\ k \in walk[p].accepted /\ k \in DOMAIN pre[p] /\ ~Unchanged(p, k)
    /\ k \notin walk[p].failed
    /\ OnDisk[k] # pre[p][k]
    /\ OnDisk[k].h = Digest(fs[FileOf(k)].data)

\* ---------------------------------------------------------------- C7
\* The AddAll at its unlock follows another AddAll that wrote the index
\* file, with no call and no change of the tree or the rules in between.
SecondAddAll(p) ==
  /\ op[p].kind = "AddAll"
  /\ pc[p] = "unlock"
  /\ lastAddAll.state # "none"

Eligible ==
  {k \in {KeyA, KeyB} :
     fs[FileOf(k)].present /\ k \notin ignore /\ k \notin unsafe}

\* C8: an AddAll that wrote the index file accepted exactly the eligible
\* files, and the file it wrote has no key outside them.
C8_OnlyAcceptedKeys ==
  \A p \in Procs :
    (op[p].kind = "AddAll" /\ pc[p] \in {"unlock", "done"} /\ wrote[p]) =>
      /\ walk[p].accepted = Eligible
      /\ DOMAIN OnDisk \subseteq Eligible

\* An AddAll dropped the entry of a removed file and the entry of a file
\* the rules now match, or left an ignored untracked file out.
C8_Witness ==
  \E p \in Procs :
    /\ op[p].kind = "AddAll" /\ pc[p] = "done" /\ wrote[p]
    /\ \E k \in DOMAIN pre[p] : ~fs[FileOf(k)].present /\ k \notin DOMAIN OnDisk
    /\ \E k \in ignore : fs[FileOf(k)].present /\ k \notin DOMAIN OnDisk

\* ---------------------------------------------------------------- C9
\* The index file the call found holds bare strings only.
LegacyFile(file) ==
  /\ file.kind = "json"
  /\ DOMAIN file.vals # {}
  /\ \A k \in DOMAIN file.vals : file.vals[k].shape = "str"

\* C9: a legacy index loads with its hashes and zero metadata, and a stage
\* that accepts the file of one of its entries takes the slow path for it,
\* a zero-byte file with modification time 0 included.
C9_LegacyRehashed ==
  \A p \in Procs :
    (op[p].kind \in StagingKinds /\ pc[p] \in AfterFn /\ LegacyFile(before[p])) =>
      /\ pre[p] = [k \in DOMAIN before[p].vals |->
                     IndexEntry(before[p].vals[k].h, 0, 0)]
      /\ \A k \in walk[p].accepted \cap DOMAIN pre[p] :
            k \in Range(walk[p].hashed)

\* ---------------------------------------------------------------- C10
\* C10: the index file a successful UpdateIndex wrote has the keys of the
\* map the callback left and its hashes; a new key or a changed hash has
\* zero metadata, an unchanged hash keeps the loaded entry.
C10_Reconciled ==
  \A p \in Procs :
    (op[p].kind = "UpdateIndex" /\ pc[p] \in {"unlock", "done"} /\ wrote[p]) =>
      /\ DOMAIN OnDisk = DOMAIN proxy[p]
      /\ \A k \in DOMAIN proxy[p] :
           /\ OnDisk[k].h = proxy[p][k]
           /\ OnDisk[k] = IF k \in DOMAIN pre[p] /\ pre[p][k].h = proxy[p][k]
                          THEN pre[p][k]
                          ELSE IndexEntry(proxy[p][k], 0, 0)

\* An UpdateIndex deleted one key and kept the other with its metadata.
C10_Witness ==
  \E p \in Procs, k1, k2 \in {KeyA, KeyB} :
    /\ op[p].kind = "UpdateIndex" /\ pc[p] = "done" /\ wrote[p]
    /\ k1 \in DOMAIN pre[p] /\ k1 \notin DOMAIN OnDisk
    /\ k2 \in DOMAIN pre[p] /\ pre[p][k2].m # 0 /\ OnDisk[k2] = pre[p][k2]

\* ---------------------------------------------------------------- C11
\* C11: WriteIndex never fails on the index file it finds, it writes while
\* it holds the lock, and the file a successful WriteIndex(M) leaves has
\* the keys of M, each with M's hash and zero size and modification time.
C11_WriteIndexReplaces ==
  \A p \in Procs :
    op[p].kind = "WriteIndex" =>
      /\ err[p] # "corrupt"
      /\ pc[p] = "write" => p \in lockHeld
      /\ (pc[p] \in {"unlock", "done"} /\ wrote[p]) =>
           /\ DOMAIN OnDisk = DOMAIN op[p].simple
           /\ \A k \in DOMAIN op[p].simple :
                OnDisk[k] = IndexEntry(op[p].simple[k].h, 0, 0)

\* A WriteIndex replaced an index file that does not load and dropped the
\* key it held.
C11_Witness ==
  \E p \in Procs :
    /\ op[p].kind = "WriteIndex" /\ pc[p] = "done" /\ wrote[p]
    /\ LoadIndexWithMeta(before[p]).err = "corrupt"
    /\ KeyB \in DOMAIN before[p].vals
    /\ DOMAIN OnDisk = {KeyA}

\* ---------------------------------------------------------------- C12
\* The call has loaded the index file it found under the lock.
Loaded(p) ==
  /\ op[p].kind \in {"AddFile", "AddAll", "UpdateIndex", "UpdateIndexWithMeta"}
  /\ pc[p] \in {"fn", "write", "unlock", "done"}
  /\ err[p] \notin {"notrepo", "notfound", "mkdir", "lock"}

\* C12: an absent or empty file loads as the empty index; a malformed
\* document or an object that does not decode fails the load, and the call
\* ends without a write; otherwise the index has exactly the keys with a
\* string or an object value, a string as (hash, 0, 0) and an object as
\* decoded, and the values of another shape are left out.
C12_LoadClassifies ==
  \A p \in Procs :
    Loaded(p) =>
      LET f == before[p]
      IN IF f.kind \in {"absent", "empty"}
         THEN err[p] # "corrupt" /\ DOMAIN pre[p] = {}
         ELSE IF f.kind = "corrupt" \/
                 \E k \in DOMAIN f.vals : f.vals[k].shape = "badobj"
         THEN err[p] = "corrupt" /\ DOMAIN pre[p] = {} /\ ~wrote[p] /\ disk = f
         ELSE /\ err[p] # "corrupt"
              /\ DOMAIN pre[p] =
                   {k \in DOMAIN f.vals : f.vals[k].shape \in {"str", "obj"}}
              /\ \A k \in DOMAIN pre[p] :
                   /\ pre[p][k].h = f.vals[k].h
                   /\ f.vals[k].shape = "str" => (pre[p][k].m = 0 /\ pre[p][k].s = 0)
                   /\ f.vals[k].shape = "obj" =>
                        /\ pre[p][k].m = IF f.vals[k].m = Omitted THEN 0 ELSE f.vals[k].m
                        /\ pre[p][k].s = IF f.vals[k].s = Omitted THEN 0 ELSE f.vals[k].s

\* A call loaded a file with a value of another shape next to a legacy one.
C12_Witness ==
  \E p \in Procs :
    /\ Loaded(p) /\ pc[p] = "fn"
    /\ before[p].kind = "json"
    /\ \E k \in DOMAIN before[p].vals : before[p].vals[k].shape = "other"
    /\ \E k \in DOMAIN pre[p] : before[p].vals[k].shape = "str"

\* ---------------------------------------------------------------- C13
\* A canonical key: a clean relative path that stays inside the root, is
\* not .kitcat or below it, and does not name a directory.
CanonicalKey(k) ==
  /\ Clean(k) = k
  /\ k # <<".">>
  /\ \A i \in 1..Len(k) : k[i] # ".."
  /\ ~InRepoDir(k)
  /\ ~IsDirNode(FileOf(k))

\* C13: every key of the index file is canonical, whatever calls wrote it.
C13_KeysCanonical == \A k \in DOMAIN OnDisk : CanonicalKey(k)

\* ---------------------------------------------------------------- C14
\* The entry of k is in index b what it is in index a, or in neither.
SameEntry(a, b, k) ==
  IF k \in DOMAIN a THEN k \in DOMAIN b /\ b[k] = a[k] ELSE k \notin DOMAIN b

\* An AddAll does not return the failure the walk or the content store
\* reported for one file: its walk went over every eligible file, the entry
\* of a file that failed is the loaded one, and the call goes on to write.
AddAllTolerates(p) ==
  (op[p].kind = "AddAll" /\ Loaded(p) /\ pc[p] \in AfterFn
     /\ err[p] \notin {"corrupt", "patterns"}) =>
    /\ err[p] \notin {"walk", "hash"}
    /\ walk[p].accepted = Eligible
    /\ \A k \in walk[p].failed : SameEntry(pre[p], mem[p], k)
    /\ wrote[p] => \A k \in walk[p].failed : SameEntry(pre[p], OnDisk, k)

\* An AddFile whose walk met a failure returns it and writes nothing.
AddFileAborts(p) ==
  (op[p].kind = "AddFile" /\ pc[p] \in AfterFn
     /\ (walk[p].failed # {} \/ walk[p].err = "walk")) =>
    /\ err[p] \in {"walk", "hash"}
    /\ pc[p] # "write"
    /\ ~wrote[p] /\ disk = before[p]

\* C14: no failure on one file, reported by the walk or by the content
\* store, aborts an AddAll, and any of them aborts an AddFile with no write.
C14_FailurePolicy ==
  \A p \in Procs : AddAllTolerates(p) /\ AddFileAborts(p)

\* ---------------------------------------------------------------- C15
\* C15: a staging call that begins while the directory .kitcat is absent
\* returns the not-a-repository failure at once: it takes no further step,
\* so it creates no directory, takes no lock and writes no index file.
C15_MarkerGating ==
  [][\A p \in Procs :
       (pc[p] = "idle" /\ pc'[p] # "idle" /\ op'[p].kind \in StagingKinds /\ ~repoDir)
         => (pc'[p] = "done" /\ err'[p] = "notrepo")]_vars

\* ---------------------------------------------------------------- C16
\* The input path names a location that is not below the repository root.
Escapes(inputPath) == Rel(AbsRepoRoot, Abs(inputPath)).path[1] = ".."

\* C16: an AddFile whose input path is an existing location outside the
\* repository root returns the outside-repository failure and writes
\* nothing.
C16_OutsideAborts ==
  \A p \in Procs :
    (op[p].kind = "AddFile" /\ Escapes(op[p].path) /\ Loaded(p) /\ pc[p] = "done")
      => (err[p] = "outside" /\ ~wrote[p])

\* ---------------------------------------------------------------- C17
\* C17: a transaction that loaded the index file, left the index as loaded
\* and wrote it back leaves a file that loads to the index the file before
\* it loads to.
C17_RoundTrip ==
  \A p \in Procs :
    (Loaded(p) /\ pc[p] \in {"unlock", "done"} /\ wrote[p] /\ mem[p] = pre[p])
      => OnDisk = LoadIndexWithMeta(before[p]).index

\* A callback that changed nothing wrote back an entry with metadata and an
\* entry without.
C17_Witness ==
  \E p \in Procs, k1, k2 \in {KeyA, KeyB} :
    /\ op[p].kind = "UpdateIndexWithMeta" /\ pc[p] = "done" /\ wrote[p]
    /\ mem[p] = pre[p]
    /\ k1 \in DOMAIN pre[p] /\ pre[p][k1].m # 0 /\ OnDisk[k1] = pre[p][k1]
    /\ k2 \in DOMAIN pre[p] /\ pre[p][k2].m = 0 /\ OnDisk[k2] = pre[p][k2]

\* ---------------------------------------------------------------- C18
\* C18: a staging walk that reached the directory .kitcat visited nothing
\* below it, whatever IsSafePath says, and accepted no path in it.
C18_MetaDirPruned ==
  \A p \in Procs :
    op[p].kind \in StagingKinds =>
      /\ MetaDir \in Range(walk[p].visited) => MetaFile \notin Range(walk[p].visited)
      /\ \A k \in walk[p].accepted : ~InRepoDir(k)

\* ---------------------------------------------------------------- C19
\* C19: the index file a successful AddFile wrote has every loaded key, an
\* entry as loaded for every key its walk did not accept, and no key that
\* was neither loaded nor accepted.
C19_AddFileFrame ==
  \A p \in Procs :
    (op[p].kind = "AddFile" /\ pc[p] \in {"unlock", "done"} /\ wrote[p]) =>
      /\ DOMAIN pre[p] \subseteq DOMAIN OnDisk
      /\ DOMAIN OnDisk \subseteq DOMAIN pre[p] \cup walk[p].accepted
      /\ \A k \in DOMAIN pre[p] \ walk[p].accepted : OnDisk[k] = pre[p][k]

\* An AddFile staged a file and kept the entry of a file that is gone.
C19_Witness ==
  \E p \in Procs, k \in {KeyA, KeyB} :
    /\ op[p].kind = "AddFile" /\ pc[p] = "done" /\ wrote[p]
    /\ walk[p].hashed # <<>>
    /\ k \in DOMAIN pre[p] /\ ~fs[FileOf(k)].present
    /\ OnDisk[k] = pre[p][k]

\* ---------------------------------------------------------------- C20
\* C20: the index file a call wrote is an indented document whose values
\* are all objects; when the callback left the loaded index as it was, a
\* bare string of the file before is now the object with that hash and no
\* metadata, and a key whose value the load skipped is gone.
C20_RichFormWritten ==
  \A p \in Procs :
    (pc[p] \in {"unlock", "done"} /\ wrote[p]) =>
      /\ disk.kind = "json" /\ disk.fmt = "indent"
      /\ \A k \in DOMAIN disk.vals : disk.vals[k].shape = "obj"
      /\ (Loaded(p) /\ mem[p] = pre[p]) =>
           \A k \in DOMAIN before[p].vals :
             /\ before[p].vals[k].shape = "str" =>
                  (k \in DOMAIN disk.vals /\
                   disk.vals[k] = RawObject(before[p].vals[k].h, Omitted, Omitted))
             /\ before[p].vals[k].shape = "other" => k \notin DOMAIN disk.vals

\* A callback that changed nothing rewrote a legacy entry and dropped a
\* skipped one: the file is not the file it loaded.
C20_Witness ==
  \E p \in Procs, k1, k2 \in {KeyA, KeyB} :
    /\ Loaded(p) /\ pc[p] = "done" /\ wrote[p] /\ mem[p] = pre[p]
    /\ before[p].kind = "json"
    /\ k1 \in DOMAIN before[p].vals /\ before[p].vals[k1].shape = "other"
    /\ k2 \in DOMAIN before[p].vals /\ before[p].vals[k2].shape = "str"
    /\ DOMAIN disk.vals = {k2} /\ disk.vals[k2].shape = "obj"
    /\ disk # before[p]

====
